---- MODULE Spec2Model ----
(***************************************************************************)
(* Model of winbak_extract.py: one backup folder processed by process_zips *)
(* (stage_extract, merge_parts, staging cleanup, summary log).             *)
(*                                                                         *)
(* The file system is a map from paths to byte sequences plus a set of     *)
(* staging directories.  Archives are read through zipfile: an archive is  *)
(* its file name and the list of entries zf.infolist() returns.  Every     *)
(* file-system or archive operation the code guards with try/except may    *)
(* fail; the number of such failures in one behaviour is bounded.          *)
(***************************************************************************)
EXTENDS Integers, Sequences, FiniteSets, TLC

\* ------------------------------------------------------------- bounds
MaxArchives == 2      \* archives in the backup folder
MaxFaults   == 1      \* injected I/O failures in one behaviour
MaxChildren == 2      \* entries of the folder given to --set
MaxListing  == 3      \* files of the folder handed to the enumerator

\* ---------------------------------------------------------- constants
FLAG_UTF8 == 2048     \* 0x800, general purpose bit 11
MaxSize   == 2147483647   \* sys.maxsize (the largest integer the checker holds)

\* ------------------------------------------------ file names as text
\* Characters are their code points: "0".."9" are 48..57, "." is 46,
\* "X" is 88, "z" "i" "p" are 122 105 112.
DotZip == <<46, 122, 105, 112>>

RECURSIVE LexLess(_, _)
\* s < t for two sequences of code points, as Python compares str
LexLess(s, t) ==
    IF t = <<>> THEN FALSE
    ELSE IF s = <<>> THEN TRUE
    ELSE IF Head(s) # Head(t) THEN Head(s) < Head(t)
    ELSE LexLess(Tail(s), Tail(t))

IsDigit(c) == c >= 48 /\ c <= 57

RECURSIVE DigitsValue(_, _)
DigitsValue(s, acc) ==
    IF s = <<>> THEN acc ELSE DigitsValue(Tail(s), acc * 10 + (Head(s) - 48))

\* Path(suffix).stem for a name ending in ".zip": the name without its
\* last four characters
PathStem(name) == SubSeq(name, 1, Len(name) - 4)

\* int(stem) succeeds on a non-empty run of decimal digits
IsInt(stem) == stem # <<>> /\ \A i \in 1..Len(stem) : IsDigit(stem[i])

\* zip_sort_key: name is the text that follows "Backup files " in p.name
\* (the prefix is shared by every enumerated archive)
zip_sort_key(name) ==
    IF IsInt(PathStem(name))
    THEN <<DigitsValue(PathStem(name), 0), name>>
    ELSE <<MaxSize, name>>

\* tuple comparison of two sort keys
KeyLess(k1, k2) ==
    \/ k1[1] < k2[1]
    \/ k1[1] = k2[1] /\ LexLess(k1[2], k2[2])

RECURSIVE InsertSorted(_, _)
InsertSorted(z, sorted) ==
    IF sorted = <<>> THEN <<z>>
    ELSE IF KeyLess(zip_sort_key(z.name), zip_sort_key(Head(sorted).name))
         THEN <<z>> \o sorted
         ELSE <<Head(sorted)>> \o InsertSorted(z, Tail(sorted))

\* The sort left out: the archives in the order the folder lists them
SortZips_unsorted(listing) == listing

RECURSIVE SortZips(_)
\* zips.sort(key=zip_sort_key) applied to a listing of the folder
SortZips(listing) ==
    IF listing = <<>> THEN <<>>
    ELSE InsertSorted(listing[Len(listing)], SortZips(SubSeq(listing, 1, Len(listing) - 1)))

\* ------------------------------------------------- file-name decoding
\* Code points used by the entry names: ASCII, and the CP437 characters
\* o-circumflex (244, byte 147) and middle dot (183, byte 250), which
\* together are the CP932 bytes of the kanji U+65E5 (26085).
DecodeFail == <<-1>>

\* str.encode('cp437') of one character; -1 when CP437 has no such character
Cp437EncChar(c) ==
    IF c < 128 THEN c
    ELSE IF c = 244 THEN 147
    ELSE IF c = 183 THEN 250
    ELSE -1

\* bytes.decode('cp437') of one byte (every byte has a character)
Cp437DecByte(b) ==
    IF b < 128 THEN b
    ELSE IF b = 147 THEN 244
    ELSE IF b = 250 THEN 183
    ELSE b

Cp437Encode(s) ==
    IF \E i \in 1..Len(s) : Cp437EncChar(s[i]) = -1 THEN DecodeFail
    ELSE [i \in 1..Len(s) |-> Cp437EncChar(s[i])]

Cp437Decode(raw) == [i \in 1..Len(raw) |-> Cp437DecByte(raw[i])]

RECURSIVE Cp932Decode(_)
\* bytes.decode('cp932'): ASCII bytes are themselves, 147 250 is one
\* double-byte character, any other byte above 127 is undecodable here
Cp932Decode(raw) ==
    IF raw = <<>> THEN <<>>
    ELSE IF Head(raw) < 128 THEN
        LET rest == Cp932Decode(Tail(raw))
        IN  IF rest = DecodeFail THEN DecodeFail ELSE <<Head(raw)>> \o rest
    ELSE IF Len(raw) >= 2 /\ raw[1] = 147 /\ raw[2] = 250 THEN
        LET rest == Cp932Decode(SubSeq(raw, 3, Len(raw)))
        IN  IF rest = DecodeFail THEN DecodeFail ELSE <<26085>> \o rest
    ELSE DecodeFail

\* raw.decode(user_encoding); encodings other than cp932 are unknown to
\* the codec registry and raise LookupError
UserDecode(raw, enc) == IF enc = "cp932" THEN Cp932Decode(raw) ELSE DecodeFail

\* The caller's encoding never tried: always the legacy decoding
decode_zip_name_legacyOnly(orig_filename, flag_bits, enc) ==
    IF (flag_bits \div FLAG_UTF8) % 2 = 1 THEN orig_filename
    ELSE LET raw == Cp437Encode(orig_filename) IN
         IF raw = DecodeFail THEN orig_filename ELSE Cp437Decode(raw)

\* _decode_zip_name on one path component (the separator "/" is ASCII in
\* every encoding, so decoding commutes with splitting the path)
decode_zip_name(orig_filename, flag_bits, enc) ==
    IF (flag_bits \div FLAG_UTF8) % 2 = 1 THEN orig_filename
    ELSE LET raw == Cp437Encode(orig_filename) IN
         IF raw = DecodeFail THEN orig_filename
         ELSE IF enc # "" /\ UserDecode(raw, enc) # DecodeFail
              THEN UserDecode(raw, enc)
              ELSE Cp437Decode(raw)

\* str.lower() on the code points the model uses
LowerChar(c) == IF c >= 65 /\ c <= 90 THEN c + 32 ELSE c
Lower(s) == [i \in 1..Len(s) |-> LowerChar(s[i])]

\* ------------------------------------------------------------- paths
\* A relative path is its parent directory (<<>> for ".") and its name.
\* rel = Path(fixed_name)
RelOf(info, enc) ==
    [dir  |-> decode_zip_name(info.dir, info.flag_bits, enc),
     base |-> decode_zip_name(info.base, info.flag_bits, enc)]

\* key = str(rel).lower()
KeyOf(rel) == [dir |-> Lower(rel.dir), base |-> Lower(rel.base)]

\* The index counted from zero
PartPath_zeroBased(rel, idx) ==
    [root |-> "tmp", dir |-> rel.dir, base |-> rel.base, ext |-> "part", idx |-> idx - 1]

\* part_path = tmp_root / rel.parent / (rel.name + ".part_%04d" % idx)
PartPath(rel, idx) ==
    [root |-> "tmp", dir |-> rel.dir, base |-> rel.base, ext |-> "part", idx |-> idx]

\* The merge written straight to the destination path
TmpMerge_direct(first_part) ==
    [root |-> "dest", dir |-> first_part.dir, base |-> first_part.base,
     ext |-> "", idx |-> 0]

\* tmp_merge = first_part.parent / (original_name + ".__merge_tmp")
TmpMerge(first_part) ==
    [root |-> "tmp", dir |-> first_part.dir, base |-> first_part.base,
     ext |-> "__merge_tmp", idx |-> 0]

\* final_path = dest_root / first_part.parent.relative_to(tmp_root) / original_name
FinalPath(first_part) ==
    [root |-> "dest", dir |-> first_part.dir, base |-> first_part.base,
     ext |-> "", idx |-> 0]

\* ------------------------------------------------------ file system
Exists(f, p) == p \in DOMAIN f

\* open(p, "wb") ... write(data): create or replace the file
WriteFile(f, p, data) == [q \in DOMAIN f \cup {p} |-> IF q = p THEN data ELSE f[q]]

\* Path.unlink(missing_ok=True)
Unlink(f, p) == [q \in DOMAIN f \ {p} |-> f[q]]

\* A copy in place of the rename: the source stays
Replace_keepsSource(f, src, dst) ==
    [q \in DOMAIN f \cup {dst} |-> IF q = dst THEN f[src] ELSE f[q]]

\* os.replace(src, dst): one atomic step
Replace(f, src, dst) ==
    [q \in (DOMAIN f \ {src}) \cup {dst} |-> IF q = dst THEN f[src] ELSE f[q]]

\* st_size
Size(f, p) == Len(f[p])

RECURSIVE SumSizes(_, _)
\* sum(p.stat().st_size for p in parts)
SumSizes(f, parts) ==
    IF parts = <<>> THEN 0 ELSE Size(f, Head(parts)) + SumSizes(f, Tail(parts))

RECURSIVE ConcatFiles(_, _)
\* the bytes of parts, in list order
ConcatFiles(f, parts) ==
    IF parts = <<>> THEN <<>> ELSE f[Head(parts)] \o ConcatFiles(f, Tail(parts))

\* ------------------------------------------------------------ inputs
\* Archive file names, without the shared prefix "Backup files ":
\* "2.zip", "10.zip" and the malformed "X.zip"
ArchiveNames == { <<50>> \o DotZip, <<49, 48>> \o DotZip, <<88>> \o DotZip }

\* Entry names: "a", its case variant "A", "d/e/b", and the directory
\* "d/" ("/" is 47)
NameA  == [dir |-> <<>>,    base |-> <<97>>, is_dir |-> FALSE]
NameUA == [dir |-> <<>>,    base |-> <<65>>, is_dir |-> FALSE]
NameB  == [dir |-> <<100, 47, 101>>, base |-> <<98>>, is_dir |-> FALSE]
DirD   == [dir |-> <<>>,    base |-> <<100>>, is_dir |-> TRUE]

\* What zf.infolist() may return for one archive
Listings ==
    { <<NameA, NameB>>, <<NameB, NameA>>, <<DirD, NameUA, NameB>>,
      <<NameA, NameUA>> }

\* The ZipInfo records of an archive: the bytes of entry i of archive
\* `name` are its archive's first character and i
InfoList(name, listing) ==
    [i \in 1..Len(listing) |->
        [dir |-> listing[i].dir, base |-> listing[i].base,
         is_dir |-> listing[i].is_dir, flag_bits |-> 0,
         data |-> <<name[1], i>>]]

\* Every order in which root.iterdir() may list the archives of `names`
RECURSIVE Orders(_)
Orders(names) ==
    IF names = {} THEN { <<>> }
    ELSE UNION { { <<n>> \o o : o \in Orders(names \ {n}) } : n \in names }

\* Destination files a folder may already hold before the first run
PreContent == <<7, 7, 7>>
FinalA == [root |-> "dest", dir |-> <<>>,    base |-> <<97>>, ext |-> "", idx |-> 0]
FinalB == [root |-> "dest", dir |-> <<100, 47, 101>>, base |-> <<98>>, ext |-> "", idx |-> 0]
PreSets == { {}, {FinalA}, {FinalA, FinalB} }

\* process_dir, lines 284-289: the sorted archive list of a folder that
\* holds the archives `order` (as iterdir lists them) with entries `content`
DirZips(order, content) ==
    SortZips([i \in 1..Len(order) |->
                 [name |-> order[i], entries |-> InfoList(order[i], content[order[i]])]])

\* The archive lists process_dir can build: a folder holds at most
\* MaxArchives archives, possibly none
FolderZips ==
    UNION { UNION { { DirZips(order, content) : content \in [names -> Listings] }
                    : order \in Orders(names) }
            : names \in {n \in SUBSET ArchiveNames : Cardinality(n) <= MaxArchives} }

TmpRoot == [root |-> "tmp", dir |-> <<>>]
\* dest_root exists: process_zips creates it at line 246
DestRoot == [root |-> "dest", dir |-> <<>>]
DirOf(p) == [root |-> p.root, dir |-> p.dir]

\* Position of the last "/" of a directory path, 0 when it has none
LastSlash(s) ==
    IF \E i \in 1..Len(s) : s[i] = 47
    THEN CHOOSE i \in 1..Len(s) : s[i] = 47 /\ \A j \in (i + 1)..Len(s) : s[j] # 47
    ELSE 0

\* Path.parent of a directory under a root (the root is its own parent)
ParentDir(d) ==
    LET k == LastSlash(d.dir) IN
    [root |-> d.root, dir |-> IF k = 0 THEN <<>> ELSE SubSeq(d.dir, 1, k - 1)]

\* rel.parent is absolute (it starts with "/"): tmp_root / rel.parent is
\* then rel.parent itself, whatever the root the record names
IsAbsolute(dir) == dir # <<>> /\ dir[1] = 47

RECURSIVE MkdirParents(_)
\* mkdir(parents=True, exist_ok=True): the directory and every ancestor
\* up to its root
MkdirParents(d) ==
    IF d.dir = <<>> \/ IsAbsolute(d.dir) THEN {d}
    ELSE {d} \cup MkdirParents(ParentDir(d))

RECURSIVE Split(_)
\* Path.parts of a relative directory path
Split(s) ==
    IF s = <<>> THEN <<>>
    ELSE IF \A i \in 1..Len(s) : s[i] # 47 THEN <<s>>
    ELSE LET i == CHOOSE i \in 1..Len(s) : s[i] = 47 /\ \A j \in 1..(i - 1) : s[j] # 47
         IN  <<SubSeq(s, 1, i - 1)>> \o Split(SubSeq(s, i + 1, Len(s)))

RECURSIVE LowestLevel(_, _)
\* The lowest level a walk along the components reaches, starting at
\* level lvl: ".." (46 46) goes one up, any other name one down
LowestLevel(comps, lvl) ==
    IF comps = <<>> THEN lvl
    ELSE LET nxt == IF Head(comps) = <<46, 46>> THEN lvl - 1 ELSE lvl + 1
             low == LowestLevel(Tail(comps), nxt)
         IN  IF low < lvl THEN low ELSE lvl

\* No component of the directory path is ".." (no two dots in a row)
NoDotDot(dir) == \A i \in 1..(Len(dir) - 1) : dir[i] # 46 \/ dir[i + 1] # 46

\* Where the operating system finds a path: the destination root is
\* level 0 and the staging root, its child, level 1.  A path is under
\* the destination root (the staging root) when it is not absolute and
\* walking it never leaves level 0 (level 1)
UnderDest(p) ==
    /\ ~IsAbsolute(p.dir)
    /\ \/ NoDotDot(p.dir)
       \/ LowestLevel(Split(p.dir), IF p.root = "tmp" THEN 1 ELSE 0) >= 0

UnderStaging(p) ==
    /\ p.root = "tmp" /\ ~IsAbsolute(p.dir)
    /\ \/ NoDotDot(p.dir)
       \/ LowestLevel(Split(p.dir), 1) >= 1

\* len(d.relative_to(tmp_root).parts)
Depth(d) ==
    IF d.dir = <<>> THEN 0
    ELSE 1 + Cardinality({i \in 1..Len(d.dir) : d.dir[i] = 47})

\* ------------------------------------------------------------- state
VARIABLES
    zips,           \* the sorted archive list handed to process_zips
    user_encoding,  \* --encoding ("" when absent)
    fs,             \* files: path -> bytes
    dirs,           \* directories under the staging and destination roots
    parts_map,      \* stage_extract's dict, in insertion order
    log,            \* SummaryLog
    reports,        \* summary files written so far
    ret,            \* process_zips's ret; result once pc = "done"
    pc,             \* position in process_zips
    zi, ei,         \* archive and entry being extracted
    ki,             \* index into parts_map.items() being merged
    proc_rc,        \* proc.returncode of the cmd copy
    faults,         \* failures injected so far
    run,            \* 1 for the first invocation, 2 for the re-run
    pre,            \* ghost: destination files at the start of this run
    xfail,          \* ghost: [archive, entry] where extraction raised (entry 0: the open)
    xseen,          \* ghost: <<archive, entry>> pairs stage_extract reached
    trunc,          \* ghost: the fragment truncated between extract and merge
    guarded,        \* ghost: destinations the overwrite guard skipped, this run
    stuck,          \* ghost: temporary files whose unlink raised, this run
    fin,            \* ghost: cleanup blocks entered, log.write calls, reports written, this run
    mpc,            \* position in main: "dir" (--dir), or in the --set loop
    children,       \* --set: number of entries set_root.iterdir() yields
    ci,             \* --set: entries visited so far
    main_ret,       \* main's ret
    outcomes,       \* ghost: what became of each visited entry of the set
    listing         \* the file names root.iterdir() yielded to the enumerator

vars == <<zips, user_encoding, fs, dirs, parts_map, log, reports, ret, pc,
          zi, ei, ki, proc_rc, faults, run, pre, xfail, xseen, trunc,
          guarded, stuck, fin, mpc, children, ci, main_ret, outcomes, listing>>

mainvars == <<mpc, children, ci, main_ret, outcomes, listing>>

\* SummaryLog.__init__
NewLog ==
    [merged |-> <<>>, skipped_existing |-> <<>>, errors |-> <<>>,
     extracted_parts_count |-> 0, zips_processed |-> 0]

NoFin == [cleanup |-> 0, write |-> 0, written |-> 0]

DestFiles(f) == [q \in {x \in DOMAIN f : x.root = "dest"} |-> f[q]]

\* main called with --dir on one backup folder
Init ==
    /\ zips \in FolderZips
    /\ mpc = "dir" /\ children = 0 /\ ci = 0 /\ main_ret = 0 /\ outcomes = <<>>
    /\ listing = <<>>
    /\ user_encoding = ""
    /\ \E existing \in PreSets :
         /\ fs = [q \in existing |-> PreContent]
         /\ dirs = {DestRoot} \cup UNION {MkdirParents(DirOf(q)) : q \in existing}
    /\ parts_map = <<>>
    /\ log = NewLog
    /\ reports = <<>>
    /\ ret = 0
    /\ pc = "start"
    /\ zi = 0 /\ ei = 0 /\ ki = 0
    /\ proc_rc = 0
    /\ faults = 0
    /\ run = 1
    /\ pre = fs
    /\ xfail = {} /\ xseen = {} /\ trunc = {}
    /\ guarded = {} /\ stuck = {}
    /\ fin = NoFin

ghosts == <<pre, xfail, xseen, trunc, guarded, stuck, fin>>

MayFail == faults < MaxFaults

\* log.errors.append(...)
AddError(l, kind, about) ==
    [l EXCEPT !.errors = Append(@, [kind |-> kind, about |-> about])]

\* ------------------------------------------------ process_zips, entry
\* The exception recorded, the finally block skipped
Fatal_noFinally(l, exc) ==
    /\ log' = AddError(l, "fatal", [exc |-> exc])
    /\ ret' = 1
    /\ pc' = "return"

\* except Exception as exc: log.errors.append("Fatal error: ..."); ret = 1
\* and control passes to the finally block
Fatal(l, exc) ==
    /\ log' = AddError(l, "fatal", [exc |-> exc])
    /\ ret' = 1
    /\ pc' = "cleanup"

\* lines 245-252: a fresh SummaryLog, ret = 0, zips_processed.  With an
\* empty list zips[0] at line 245 raises IndexError before the try block:
\* the exception leaves process_zips (line 252 is never reached)
Start ==
    /\ pc = "start"
    /\ \/ /\ zips # <<>>
          /\ log' = [NewLog EXCEPT !.zips_processed = Len(zips)]
          /\ ret' = 0
          /\ pc' = "stage"
       \/ /\ zips = <<>>
          /\ pc' = "raised"
          /\ UNCHANGED <<log, ret>>
    /\ UNCHANGED <<mainvars, zips, user_encoding, fs, dirs, parts_map, reports, zi, ei,
                   ki, proc_rc, faults, run, ghosts>>

\* ------------------------------------------------------ stage_extract
\* lines 136-138: parts_map = {}; tmp_root.mkdir(parents=True, exist_ok=True)
Stage ==
    /\ pc = "stage"
    /\ parts_map' = <<>>
    /\ \/ /\ dirs' = dirs \cup {TmpRoot}
          /\ zi' = 1 /\ ei' = 0
          /\ pc' = "open"
          /\ UNCHANGED <<log, ret, faults>>
       \/ /\ MayFail              \* mkdir raises: not inside any try of stage_extract
          /\ TmpRoot \notin dirs
          /\ faults' = faults + 1
          /\ Fatal(log, "OSError")
          /\ UNCHANGED <<dirs, zi, ei>>
    /\ UNCHANGED <<mainvars, zips, user_encoding, fs, reports, ki, proc_rc, run, ghosts>>

\* The position after archive zi is finished, normally or by an exception
NextArchive ==
    /\ zi' = zi + 1
    /\ ei' = 0
    /\ pc' = "open"

\* except Exception as exc: log.errors.append(f"Failed to extract from {zp}: {exc}")
ArchiveFailed ==
    /\ log' = AddError(log, "extract", [zp |-> zips[zi].name])
    /\ xfail' = xfail \cup {[z |-> zi, e |-> ei]}
    /\ faults' = faults + 1
    /\ NextArchive

\* line 142: zipfile.ZipFile(zp) for the next archive of the list
Open ==
    /\ pc = "open"
    /\ zi <= Len(zips)
    /\ \/ /\ zi' = zi /\ ei' = 1
          /\ pc' = "entry"
          /\ UNCHANGED <<log, faults, xfail>>
       \/ /\ MayFail              \* BadZipFile, OSError
          /\ ArchiveFailed
    /\ UNCHANGED <<mainvars, zips, user_encoding, fs, dirs, parts_map, reports, ret, ki,
                   proc_rc, run, pre, xseen, trunc, guarded, stuck, fin>>

\* Index of key in the dict, 0 when absent
KeyIndex(pm, key) ==
    IF \E i \in 1..Len(pm) : pm[i].key = key
    THEN CHOOSE i \in 1..Len(pm) : pm[i].key = key
    ELSE 0

\* parts_map.setdefault(key, []): the dict afterwards
SetDefault(pm, key) ==
    IF KeyIndex(pm, key) = 0 THEN Append(pm, [key |-> key, parts |-> <<>>]) ELSE pm

\* After entry ei: the next entry, or the end of the with block
NextEntry ==
    IF ei < Len(zips[zi].entries)
    THEN zi' = zi /\ ei' = ei + 1 /\ pc' = "entry"
    ELSE NextArchive

\* lines 143-158: one iteration of the loop over zf.infolist()
Entry ==
    /\ pc = "entry"
    /\ LET info == zips[zi].entries[ei]
           rel  == RelOf(info, user_encoding)
           key  == KeyOf(rel)
           pm1  == SetDefault(parts_map, key)
           k    == KeyIndex(pm1, key)
           idx  == Len(pm1[k].parts) + 1
           part_path == PartPath(rel, idx)
       IN
       /\ xseen' = xseen \cup {<<zi, ei>>}
       /\ \/ /\ info.is_dir                        \* continue
             /\ NextEntry
             /\ UNCHANGED <<fs, dirs, parts_map, log, faults, xfail>>
          \/ /\ ~info.is_dir                       \* staged and recorded
             /\ dirs' = dirs \cup MkdirParents(DirOf(part_path))
             /\ fs' = WriteFile(fs, part_path, info.data)
             /\ parts_map' = [pm1 EXCEPT ![k].parts = Append(@, part_path)]
             /\ log' = [log EXCEPT !.extracted_parts_count = @ + 1]
             /\ NextEntry
             /\ UNCHANGED <<faults, xfail>>
          \/ /\ ~info.is_dir /\ MayFail            \* part_dir.mkdir or an open raises
             /\ parts_map' = pm1
             /\ ArchiveFailed
             /\ UNCHANGED <<fs, dirs>>
          \/ /\ ~info.is_dir /\ MayFail            \* copyfileobj raises part-way
             /\ dirs' = dirs \cup MkdirParents(DirOf(part_path))
             /\ fs' = WriteFile(fs, part_path, SubSeq(info.data, 1, Len(info.data) - 1))
             /\ parts_map' = pm1
             /\ ArchiveFailed
    /\ UNCHANGED <<mainvars, zips, user_encoding, reports, ret, ki, proc_rc, run, pre,
                   trunc, guarded, stuck, fin>>

\* The merge started as soon as the first archive is done
ExtractDone_early ==
    /\ pc = "open"
    /\ zi > 1
    /\ ki' = 1
    /\ pc' = "merge"
    /\ UNCHANGED <<mainvars, zips, user_encoding, fs, dirs, parts_map, log, reports, ret,
                   zi, ei, proc_rc, faults, run, ghosts>>

\* line 161: return parts_map, and line 254 calls merge_parts
ExtractDone ==
    /\ pc = "open"
    /\ zi > Len(zips)
    /\ ki' = 1
    /\ pc' = "merge"
    /\ UNCHANGED <<mainvars, zips, user_encoding, fs, dirs, parts_map, log, reports, ret,
                   zi, ei, proc_rc, faults, run, ghosts>>

\* ----------------------------------------------- between the stages
\* The size-mismatch injection of the test plan: one recorded fragment
\* loses its last byte after extraction and before any merge (at most
\* once in a behaviour; it counts as one of the injected failures)
Truncate ==
    /\ pc = "merge" /\ ki = 1 /\ trunc = {}
    /\ MayFail
    /\ faults' = faults + 1
    /\ \E i \in 1..Len(parts_map) : \E j \in 1..Len(parts_map[i].parts) :
         LET p == parts_map[i].parts[j] IN
         /\ Exists(fs, p) /\ Len(fs[p]) > 0
         /\ fs' = WriteFile(fs, p, SubSeq(fs[p], 1, Len(fs[p]) - 1))
         /\ trunc' = {[path |-> p, run |-> run]}
    /\ UNCHANGED <<mainvars, zips, user_encoding, dirs, parts_map, log, reports, ret, pc,
                   zi, ei, ki, proc_rc, run, pre, xfail, xseen,
                   guarded, stuck, fin>>

\* -------------------------------------------------------- merge_parts
\* The next item of parts_map.items()
NextKey ==
    /\ ki' = ki + 1
    /\ pc' = "merge"

\* The handler without its unlink: the temporary file is left behind
MergeFailed_keepsTmp(f, tmp_merge, final_path) ==
    /\ log' = AddError(log, "merge", final_path)
    /\ fs' = f
    /\ stuck' = stuck
    /\ NextKey

\* lines 235-240: record the error, discard tmp_merge (best effort), and
\* go on with the next key
MergeFailed(f, tmp_merge, final_path) ==
    /\ log' = AddError(log, "merge", final_path)
    /\ \/ fs' = Unlink(f, tmp_merge) /\ stuck' = stuck
       \/ /\ Exists(f, tmp_merge)             \* unlink raises: swallowed
          /\ fs' = f
          /\ stuck' = stuck \cup {tmp_merge}
    /\ NextKey

\* The guard left out: no destination is ever seen as existing
FinalExists_never(f, final_path) == FALSE

\* line 185: final_path.exists()
FinalExists(f, final_path) == Exists(f, final_path)

AllExist(f, parts) == \A i \in 1..Len(parts) : Exists(f, parts[i])

\* lines 177-202: destination, overwrite guard, single-part fast path
MergeBegin ==
    /\ pc = "merge"
    /\ ki <= Len(parts_map)
    /\ LET parts == parts_map[ki].parts IN
       \/ /\ parts = <<>>                          \* parts[0] raises IndexError
          /\ Fatal(log, "IndexError")
          /\ UNCHANGED <<fs, dirs, ki, faults, guarded>>
       \/ /\ parts # <<>>                          \* relative_to raises ValueError
          /\ IsAbsolute(parts[1].dir)
          /\ Fatal(log, "ValueError")
          /\ UNCHANGED <<fs, dirs, ki, faults, guarded>>
       \/ /\ parts # <<>>
          /\ ~IsAbsolute(parts[1].dir)
          /\ LET first_part == parts[1]
                 final_path == FinalPath(first_part)
             IN
             \/ /\ MayFail                         \* final_dir.mkdir raises
                /\ DirOf(final_path) \notin dirs
                /\ faults' = faults + 1
                /\ Fatal(log, "OSError")
                /\ UNCHANGED <<fs, dirs, ki, guarded>>
             \/ /\ FinalExists(fs, final_path)     \* overwrite guard
                /\ dirs' = dirs \cup MkdirParents(DirOf(final_path))
                /\ log' = AddError([log EXCEPT !.skipped_existing = Append(@, final_path)],
                                   "exists", final_path)
                /\ guarded' = guarded \cup {final_path}
                /\ NextKey
                /\ UNCHANGED <<fs, ret, faults>>
             \/ /\ ~FinalExists(fs, final_path)    \* fast path taken
                /\ Len(parts) = 1 /\ Exists(fs, first_part)
                /\ dirs' = dirs \cup MkdirParents(DirOf(final_path))
                /\ fs' = Replace(fs, first_part, final_path)
                /\ log' = [log EXCEPT !.merged = Append(@, <<final_path, 1>>)]
                /\ NextKey
                /\ UNCHANGED <<ret, faults, guarded>>
             \/ /\ ~FinalExists(fs, final_path)    \* fast path raised: fall through
                /\ Len(parts) = 1
                /\ \/ ~Exists(fs, first_part) /\ faults' = faults
                   \/ MayFail /\ faults' = faults + 1
                /\ dirs' = dirs \cup MkdirParents(DirOf(final_path))
                /\ pc' = "copy"
                /\ UNCHANGED <<fs, log, ret, ki, guarded>>
             \/ /\ ~FinalExists(fs, final_path)    \* two or more parts
                /\ Len(parts) > 1
                /\ dirs' = dirs \cup MkdirParents(DirOf(final_path))
                /\ pc' = "copy"
                /\ UNCHANGED <<fs, log, ret, ki, faults, guarded>>
    /\ UNCHANGED <<mainvars, zips, user_encoding, parts_map, reports, zi, ei, proc_rc,
                   run, pre, xfail, xseen, trunc, stuck, fin>>

\* lines 205-210: cmd /c copy /b part1+part2+... tmp_merge.  The external
\* command either concatenates, or fails leaving nothing (no cmd on the
\* host), or stops short while reporting success
Copy ==
    /\ pc = "copy"
    /\ LET parts == parts_map[ki].parts
           tmp_merge == TmpMerge(parts[1])
       IN
       \/ /\ AllExist(fs, parts)
          /\ fs' = WriteFile(fs, tmp_merge, ConcatFiles(fs, parts))
          /\ proc_rc' = 0
       \/ /\ fs' = fs
          /\ proc_rc' = 1
       \/ /\ AllExist(fs, parts) /\ ConcatFiles(fs, parts) # <<>>
          /\ fs' = WriteFile(fs, tmp_merge,
                       SubSeq(ConcatFiles(fs, parts), 1, Len(ConcatFiles(fs, parts)) - 1))
          /\ proc_rc' = 0
    /\ pc' = "verify"
    /\ UNCHANGED <<mainvars, zips, user_encoding, dirs, parts_map, log, reports, ret,
                   zi, ei, ki, faults, run, ghosts>>

\* lines 212-223 (and the except of 235-240): verify, or fall back to
\* concat_parts_python and verify again
Verify ==
    /\ pc = "verify"
    /\ LET parts == parts_map[ki].parts
           tmp_merge == TmpMerge(parts[1])
           final_path == FinalPath(parts[1])
           expected == SumSizes(fs, parts)
           actual == IF Exists(fs, tmp_merge) THEN Size(fs, tmp_merge) ELSE 0
           whole == ConcatFiles(fs, parts)
       IN
       \/ /\ ~AllExist(fs, parts)                  \* stat raises
          /\ MergeFailed(fs, tmp_merge, final_path)
          /\ UNCHANGED faults
       \/ /\ AllExist(fs, parts)
          /\ proc_rc = 0 /\ actual = expected      \* verified
          /\ pc' = "move"
          /\ UNCHANGED <<fs, log, ki, faults, stuck>>
       \/ /\ AllExist(fs, parts)
          /\ proc_rc # 0 \/ actual # expected      \* fallback, verified
          /\ fs' = WriteFile(fs, tmp_merge, whole)
          /\ pc' = "move"
          /\ UNCHANGED <<log, ki, faults, stuck>>
       \/ /\ AllExist(fs, parts)
          /\ proc_rc # 0 \/ actual # expected      \* fallback raises part-way
          /\ MayFail /\ whole # <<>>
          /\ faults' = faults + 1
          /\ MergeFailed(WriteFile(fs, tmp_merge, SubSeq(whole, 1, Len(whole) - 1)),
                         tmp_merge, final_path)
       \/ /\ AllExist(fs, parts)
          /\ proc_rc # 0 \/ actual # expected      \* fallback short, size mismatch
          /\ MayFail /\ whole # <<>>
          /\ faults' = faults + 1
          /\ MergeFailed(WriteFile(fs, tmp_merge, <<>>), tmp_merge, final_path)
    /\ UNCHANGED <<mainvars, zips, user_encoding, dirs, parts_map, reports, ret, zi, ei,
                   proc_rc, run, pre, xfail, xseen, trunc, guarded, fin>>

\* The move into place without its record in log.merged
Move_noRecord ==
    /\ pc = "move"
    /\ LET parts == parts_map[ki].parts
           tmp_merge == TmpMerge(parts[1])
           final_path == FinalPath(parts[1])
       IN
       /\ fs' = Replace(fs, tmp_merge, final_path)
       /\ pc' = "clean"
       /\ UNCHANGED <<log, ki, faults, stuck>>
    /\ UNCHANGED <<mainvars, zips, user_encoding, dirs, parts_map, reports, ret, zi, ei,
                   proc_rc, run, pre, xfail, xseen, trunc, guarded, fin>>

\* lines 225-227: os.replace(tmp_merge, final_path); log.merged.append
Move ==
    /\ pc = "move"
    /\ LET parts == parts_map[ki].parts
           tmp_merge == TmpMerge(parts[1])
           final_path == FinalPath(parts[1])
       IN
       \/ /\ fs' = Replace(fs, tmp_merge, final_path)
          /\ log' = [log EXCEPT !.merged = Append(@, <<final_path, Len(parts)>>)]
          /\ pc' = "clean"
          /\ UNCHANGED <<ki, faults, stuck>>
       \/ /\ MayFail                               \* os.replace raises
          /\ faults' = faults + 1
          /\ MergeFailed(fs, tmp_merge, final_path)
    /\ UNCHANGED <<mainvars, zips, user_encoding, dirs, parts_map, reports, ret, zi, ei,
                   proc_rc, run, pre, xfail, xseen, trunc, guarded, fin>>

\* lines 229-234: unlink every part; a part whose unlink raises stays
Clean ==
    /\ pc = "clean"
    /\ LET parts == parts_map[ki].parts
           all == {parts[i] : i \in 1..Len(parts)}
       IN
       \E kept \in SUBSET all :
          /\ faults + Cardinality(kept) <= MaxFaults
          /\ faults' = faults + Cardinality(kept)
          /\ fs' = [q \in DOMAIN fs \ (all \ kept) |-> fs[q]]
    /\ NextKey
    /\ UNCHANGED <<mainvars, zips, user_encoding, dirs, parts_map, log, reports, ret, zi,
                   ei, proc_rc, run, ghosts>>

\* the loop over parts_map.items() ends: merge_parts returns
MergeDone ==
    /\ pc = "merge"
    /\ ki > Len(parts_map)
    /\ pc' = "cleanup"
    /\ UNCHANGED <<mainvars, zips, user_encoding, fs, dirs, parts_map, log, reports, ret,
                   zi, ei, ki, proc_rc, faults, run, ghosts>>

\* ------------------------------------------- process_zips, finally
\* tmp_root.rglob('*'): what lies under the staging root
StagingFiles(f) == {q \in DOMAIN f : UnderStaging(q)}
StagingSubdirs(ds) == {d \in ds : UnderStaging(d) /\ d # TmpRoot}

\* not any(d.iterdir()): no file in d and no directory of ds in d
IsEmptyDir(f, ds, d) ==
    /\ ~\E q \in DOMAIN f : q.root = d.root /\ q.dir = d.dir
    /\ ~\E c \in ds : c # d /\ Len(c.dir) > Len(d.dir) /\ ParentDir(c) = d

\* The pruning without its order: every directory judged once, as the
\* tree stood before any removal
Prune_onePass(f, ds, k, undone) ==
    ds \ {d \in StagingSubdirs(ds) : IsEmptyDir(f, ds, d) /\ d \notin undone}

RECURSIVE Prune(_, _, _, _)
\* lines 263-269: the staging directories visited deepest first, from
\* depth k up; one that is empty when visited is removed unless its
\* os.rmdir raises (the directories of `undone`)
Prune(f, ds, k, undone) ==
    IF k = 0 THEN ds
    ELSE Prune(f,
               ds \ {d \in ds : /\ d.root = "tmp" /\ Depth(d) = k /\ d \notin undone
                                /\ d \in StagingSubdirs({d}) /\ IsEmptyDir(f, ds, d)},
               k - 1, undone)

\* The depth of the deepest staging directory
MaxDepth(ds) ==
    LET depths == {Depth(d) : d \in StagingSubdirs(ds)} IN
    IF depths = {} THEN 0 ELSE CHOOSE k \in depths : \A j \in depths : j <= k

\* lines 259-275: prune empty staging directories bottom-up, then remove
\* the staging root when nothing is left under it; every failure is
\* swallowed
Cleanup ==
    /\ pc = "cleanup"
    /\ fin' = [fin EXCEPT !.cleanup = @ + 1]
    /\ \/ /\ TmpRoot \notin dirs                   \* tmp_root.exists() is false
          /\ UNCHANGED <<dirs, faults>>
       \/ /\ TmpRoot \in dirs
          /\ MayFail                               \* rglob raises: outer except
          /\ faults' = faults + 1
          /\ UNCHANGED dirs
       \/ /\ TmpRoot \in dirs
          /\ \E deepest \in {MaxDepth(dirs)} :
             \E undone \in {u \in SUBSET StagingSubdirs(dirs) :  \* os.rmdir raises for these
                                faults + Cardinality(u) <= MaxFaults} :
             \E left \in {Prune(fs, dirs, deepest, undone)} :
                LET has_files == StagingFiles(fs) # {}
                    has_dirs == StagingSubdirs(left) # {}
                IN
                /\ \A d \in undone : IsEmptyDir(fs, left, d)
                /\ \/ /\ ~has_files /\ ~has_dirs   \* shutil.rmtree(tmp_root)
                      /\ dirs' = left \ {TmpRoot}
                      /\ faults' = faults + Cardinality(undone)
                   \/ /\ ~has_files /\ ~has_dirs   \* rmtree fails, ignore_errors
                      /\ faults + Cardinality(undone) < MaxFaults
                      /\ dirs' = left
                      /\ faults' = faults + Cardinality(undone) + 1
                   \/ /\ has_files \/ has_dirs
                      /\ dirs' = left
                      /\ faults' = faults + Cardinality(undone)
    /\ pc' = "report"
    /\ UNCHANGED <<mainvars, zips, user_encoding, fs, parts_map, log, reports, ret, zi,
                   ei, ki, proc_rc, run, pre, xfail, xseen, trunc, guarded, stuck>>

\* The text SummaryLog.write renders: merged outputs are listed only when
\* count > 1
SummaryText(l) ==
    [zips_processed |-> l.zips_processed,
     extracted_parts_count |-> l.extracted_parts_count,
     merged |-> SelectSeq(l.merged, LAMBDA m : m[2] > 1),
     skipped_existing |-> l.skipped_existing,
     errors |-> l.errors]

\* line 276: log.write(dest_root); a failure is printed, not raised
Report ==
    /\ pc = "report"
    /\ \/ /\ reports' = Append(reports, SummaryText(log))
          /\ fin' = [fin EXCEPT !.write = @ + 1, !.written = @ + 1]
          /\ UNCHANGED faults
       \/ /\ MayFail                               \* write_text raises
          /\ faults' = faults + 1
          /\ fin' = [fin EXCEPT !.write = @ + 1]
          /\ UNCHANGED reports
    /\ pc' = "return"
    /\ UNCHANGED <<mainvars, zips, user_encoding, fs, dirs, parts_map, log, ret, zi, ei,
                   ki, proc_rc, run, pre, xfail, xseen, trunc, guarded, stuck>>

\* The result not raised by recorded errors
Return_ignoresErrors ==
    /\ pc = "return"
    /\ pc' = "done"
    /\ UNCHANGED <<mainvars, zips, user_encoding, fs, dirs, parts_map, log, reports, ret,
                   zi, ei, ki, proc_rc, faults, run, ghosts>>

\* The result forced to 1 whatever the error list holds
Return_alwaysFails ==
    /\ pc = "return"
    /\ ret' = 1
    /\ pc' = "done"
    /\ UNCHANGED <<mainvars, zips, user_encoding, fs, dirs, parts_map, log, reports, zi,
                   ei, ki, proc_rc, faults, run, ghosts>>

\* lines 277-279: if log.errors: ret = 1; return ret
Return ==
    /\ pc = "return"
    /\ ret' = IF log.errors # <<>> THEN 1 ELSE ret
    /\ pc' = "done"
    /\ UNCHANGED <<mainvars, zips, user_encoding, fs, dirs, parts_map, log, reports, zi,
                   ei, ki, proc_rc, faults, run, ghosts>>

\* The same command is run again on the folder as a first run without
\* failures left it
Rerun ==
    /\ pc = "done" /\ run = 1
    /\ faults = 0
    /\ run' = 2
    /\ pc' = "start"
    /\ zi' = 0 /\ ei' = 0 /\ ki' = 0 /\ proc_rc' = 0
    /\ pre' = DestFiles(fs)
    /\ xfail' = {} /\ xseen' = {}
    /\ guarded' = {} /\ stuck' = {}
    /\ fin' = NoFin
    /\ UNCHANGED <<mainvars, zips, user_encoding, fs, dirs, parts_map, log, reports, ret,
                   faults, trunc>>

Next ==
    \/ Start \/ Stage \/ Open \/ Entry \/ ExtractDone
    \/ Truncate
    \/ MergeBegin \/ Copy \/ Verify \/ Move \/ Clean \/ MergeDone
    \/ Cleanup \/ Report \/ Return
    \/ Rerun

Spec == Init /\ [][Next]_vars

\* ------------------------------------------------------- main, --set
\* What an entry of the set folder can be
ChildKinds == {"dir", "file"}

\* main called with --set on a folder of 1..MaxChildren entries
InitSet ==
    /\ mpc = "iter" /\ children \in 1..MaxChildren /\ ci = 0
    /\ main_ret = 0 /\ outcomes = <<>> /\ listing = <<>>
    /\ zips = <<>> /\ user_encoding = ""
    /\ fs = [q \in {} |-> <<>>] /\ dirs = {DestRoot}
    /\ parts_map = <<>> /\ log = NewLog /\ reports = <<>>
    /\ ret = 0 /\ pc = "idle"
    /\ zi = 0 /\ ei = 0 /\ ki = 0 /\ proc_rc = 0
    /\ faults = 0 /\ run = 1
    /\ pre = fs
    /\ xfail = {} /\ xseen = {} /\ trunc = {}
    /\ guarded = {} /\ stuck = {}
    /\ fin = NoFin

\* lines 302-305 and process_dir 283-290: the next entry of
\* set_root.iterdir(); a non-directory is passed over, a directory is
\* handed to process_dir, whose archive list goes to process_zips.  Each
\* subfolder is its own destination root: fs and dirs become those of
\* the subfolder entered
SetChild ==
    /\ mpc = "iter" /\ ci < children
    /\ ci' = ci + 1
    /\ \E kind \in ChildKinds :
         \/ /\ kind = "file"                        \* not child.is_dir(): continue
            /\ outcomes' = Append(outcomes, "notdir")
            /\ UNCHANGED <<mpc, zips, fs, dirs, parts_map, pc, zi, ei, ki,
                           proc_rc, ghosts>>
         \/ /\ kind = "dir"
            /\ zips' \in FolderZips
            /\ fs' = [q \in {} |-> <<>>] /\ dirs' = {DestRoot}
            /\ parts_map' = <<>>
            /\ pc' = "start"
            /\ zi' = 0 /\ ei' = 0 /\ ki' = 0 /\ proc_rc' = 0
            /\ pre' = fs'
            /\ xfail' = {} /\ xseen' = {} /\ guarded' = {} /\ stuck' = {}
            /\ fin' = NoFin
            /\ mpc' = "child"
            /\ UNCHANGED <<outcomes, trunc>>
    /\ UNCHANGED <<user_encoding, log, reports, ret, faults, run, children,
                   main_ret, listing>>

\* lines 305-307: process_dir returns child_ret, or the exception that
\* left process_zips passes through process_dir and main, which has no
\* handler.  The locals of the call are gone, and the subfolder is left
SetCollect ==
    /\ mpc = "child"
    /\ \/ /\ pc = "done"
          /\ main_ret' = IF ret # 0 THEN 1 ELSE main_ret
          /\ outcomes' = Append(outcomes, IF ret # 0 THEN "failed" ELSE "ok")
          /\ mpc' = "iter"
       \/ /\ pc = "raised"
          /\ outcomes' = Append(outcomes, "raised")
          /\ mpc' = "raised"
          /\ UNCHANGED main_ret
    /\ pc' = "idle"
    /\ zips' = <<>> /\ fs' = [q \in {} |-> <<>>] /\ dirs' = {DestRoot}
    /\ parts_map' = <<>> /\ log' = NewLog /\ reports' = <<>> /\ ret' = 0
    /\ zi' = 0 /\ ei' = 0 /\ ki' = 0 /\ proc_rc' = 0
    /\ pre' = fs'
    /\ xfail' = {} /\ xseen' = {} /\ guarded' = {} /\ stuck' = {}
    /\ fin' = NoFin
    /\ UNCHANGED <<user_encoding, faults, run, trunc, children, ci, listing>>

\* line 308: the loop is over, return ret
SetReturn ==
    /\ mpc = "iter" /\ ci = children
    /\ mpc' = "returned"
    /\ UNCHANGED <<zips, user_encoding, fs, dirs, parts_map, log, reports, ret,
                   pc, zi, ei, ki, proc_rc, faults, run, ghosts, children, ci,
                   main_ret, outcomes, listing>>

NextSet ==
    \/ SetChild \/ SetCollect \/ SetReturn
    \/ Start \/ Stage \/ Open \/ Entry \/ ExtractDone
    \/ MergeBegin \/ Copy \/ Verify \/ Move \/ Clean \/ MergeDone
    \/ Cleanup \/ Report \/ Return

SpecSet == InitSet /\ [][NextSet]_vars

\* ------------------------------------------------------ enumerate_zips
\* File names a folder may hold, without the prefix "Backup files ":
\* "2.zip", "10.zip", "02.zip", the malformed "X.zip" and "!.zip", a name
\* whose integer is sys.maxsize, and "2.txt"
SortNames ==
    { <<50>> \o DotZip, <<49, 48>> \o DotZip, <<48, 50>> \o DotZip,
      <<88>> \o DotZip, <<33>> \o DotZip,
      <<50, 49, 52, 55, 52, 56, 51, 54, 52, 55>> \o DotZip,
      <<50, 46, 116, 120, 116>> }

\* Sequences of at most n distinct elements of S
RECURSIVE Arrangements(_, _)
Arrangements(S, n) ==
    IF n = 0 THEN { <<>> }
    ELSE { <<>> } \cup UNION { { <<x>> \o a : a \in Arrangements(S \ {x}, n - 1) } : x \in S }

\* lines 102 and 107: p.suffix.lower() == ".zip"
Qualifies(name) ==
    Len(name) > 4 /\ Lower(SubSeq(name, Len(name) - 3, Len(name))) = DotZip

\* The enumerator is handed a folder holding the files of `listing`
InitSort ==
    /\ listing \in Arrangements(SortNames, MaxListing)
    /\ pc = "enumerate"
    /\ mpc = "dir" /\ children = 0 /\ ci = 0 /\ main_ret = 0 /\ outcomes = <<>>
    /\ zips = <<>> /\ user_encoding = ""
    /\ fs = [q \in {} |-> <<>>] /\ dirs = {DestRoot}
    /\ parts_map = <<>> /\ log = NewLog /\ reports = <<>>
    /\ ret = 0
    /\ zi = 0 /\ ei = 0 /\ ki = 0 /\ proc_rc = 0
    /\ faults = 0 /\ run = 1
    /\ pre = fs
    /\ xfail = {} /\ xseen = {} /\ trunc = {}
    /\ guarded = {} /\ stuck = {}
    /\ fin = NoFin

\* lines 101-110 (and 286-289): keep the qualifying files, sort them
Enumerate ==
    /\ pc = "enumerate"
    /\ zips' = SortZips([i \in 1..Len(SelectSeq(listing, Qualifies)) |->
                   [name |-> SelectSeq(listing, Qualifies)[i], entries |-> <<>>]])
    /\ pc' = "enumerated"
    /\ UNCHANGED <<mainvars, user_encoding, fs, dirs, parts_map, log, reports,
                   ret, zi, ei, ki, proc_rc, faults, run, ghosts>>

NextSort == Enumerate

SpecSort == InitSort /\ [][NextSort]_vars

\* --------------------------------------- entry names that leave the tree
\* Entry names "../u", "../../v" and the absolute "/w"
NameUp  == [dir |-> <<46, 46>>, base |-> <<117>>, is_dir |-> FALSE]
NameUp2 == [dir |-> <<46, 46, 47, 46, 46>>, base |-> <<118>>, is_dir |-> FALSE]
NameAbs == [dir |-> <<47>>, base |-> <<119>>, is_dir |-> FALSE]

ConfineListings == { <<NameA, NameUp>>, <<NameUp2, NameB>>, <<NameAbs, NameA>> }

\* main called with --dir on a folder whose archives hold such names
InitConfine ==
    /\ zips \in UNION { UNION { { DirZips(order, content) :
                                    content \in [names -> ConfineListings] }
                                : order \in Orders(names) }
                        : names \in {n \in SUBSET ArchiveNames :
                                        n # {} /\ Cardinality(n) <= MaxArchives} }
    /\ mpc = "dir" /\ children = 0 /\ ci = 0 /\ main_ret = 0 /\ outcomes = <<>>
    /\ listing = <<>>
    /\ user_encoding = ""
    /\ fs = [q \in {} |-> <<>>] /\ dirs = {DestRoot}
    /\ parts_map = <<>> /\ log = NewLog /\ reports = <<>>
    /\ ret = 0 /\ pc = "start"
    /\ zi = 0 /\ ei = 0 /\ ki = 0 /\ proc_rc = 0
    /\ faults = 0 /\ run = 1
    /\ pre = fs
    /\ xfail = {} /\ xseen = {} /\ trunc = {}
    /\ guarded = {} /\ stuck = {}
    /\ fin = NoFin

NextConfine ==
    \/ Start \/ Stage \/ Open \/ Entry \/ ExtractDone
    \/ MergeBegin \/ Copy \/ Verify \/ Move \/ Clean \/ MergeDone
    \/ Cleanup \/ Report \/ Return

SpecConfine == InitConfine /\ [][NextConfine]_vars

\* ------------------------------------ stage_extract, file-name decoding
\* Stored names (orig_filename): "a"; the CP437 reading of the bytes
\* 147 250, alone and after "a"; the CP437 reading of the byte 147 alone;
\* and the kanji U+65E5, which CP437 cannot encode: the name of an entry
\* stored as UTF-8, and, unflagged, the input of the guard of lines
\* 119-122
StoredNames == { <<97>>, <<244, 183>>, <<97, 244, 183>>, <<244>>, <<26085>> }

\* flag_bits: none, bit 3 (data descriptor), bit 11 (UTF-8), both
FlagBits == {0, 8, FLAG_UTF8, FLAG_UTF8 + 8}

\* --encoding: absent, cp932, and a name no codec answers to
Encodings == {"", "cp932", "utf-42"}

\* One archive with one entry, extracted under some --encoding
InitDecode ==
    /\ \E n \in StoredNames : \E fb \in FlagBits :
         zips = << [name |-> <<50>> \o DotZip,
                      entries |-> << [dir |-> <<>>, base |-> n, is_dir |-> FALSE,
                                      flag_bits |-> fb, data |-> <<50, 1>>] >>] >>
    /\ user_encoding \in Encodings
    /\ mpc = "dir" /\ children = 0 /\ ci = 0 /\ main_ret = 0 /\ outcomes = <<>>
    /\ listing = <<>>
    /\ fs = [q \in {} |-> <<>>] /\ dirs = {DestRoot}
    /\ parts_map = <<>> /\ log = NewLog /\ reports = <<>>
    /\ ret = 0 /\ pc = "start"
    /\ zi = 0 /\ ei = 0 /\ ki = 0 /\ proc_rc = 0
    /\ faults = 0 /\ run = 1
    /\ pre = fs
    /\ xfail = {} /\ xseen = {} /\ trunc = {}
    /\ guarded = {} /\ stuck = {}
    /\ fin = NoFin

\* process_zips up to the return of stage_extract
NextDecode == Start \/ Stage \/ Open \/ Entry \/ ExtractDone

SpecDecode == InitDecode /\ [][NextDecode]_vars

\* ============================================================ claims
\* Vocabulary shared by the properties below.
AfterMerge == pc \in {"cleanup", "report", "return", "done"}
Extracting == pc \in {"stage", "open", "entry"}
Merging    == pc \in {"merge", "copy", "verify", "move", "clean"}

\* The run left stage_extract or merge_parts by an exception: the
\* archive loop or the key loop did not reach its end
Aborted == AfterMerge /\ (zi <= Len(zips) \/ ki <= Len(parts_map))

ArchiveSet == {zips[i] : i \in 1..Len(zips)}

RECURSIVE AscendingOrder(_)
\* The archives of S by ascending zip_sort_key
AscendingOrder(S) ==
    IF S = {} THEN <<>>
    ELSE LET m == CHOOSE a \in S : \A b \in S \ {a} :
                     KeyLess(zip_sort_key(a.name), zip_sort_key(b.name))
         IN  <<m>> \o AscendingOrder(S \ {m})

FileEntries(z) == {i \in 1..Len(z.entries) : ~z.entries[i].is_dir}
EntryKey(z, i) == KeyOf(RelOf(z.entries[i], user_encoding))
KeysIn(z) == {EntryKey(z, i) : i \in FileEntries(z)}
AllKeys == UNION {KeysIn(z) : z \in ArchiveSet}

RECURSIVE BytesFrom(_, _, _)
\* The bytes of the entries of archive z that decode to key k, from entry i on
BytesFrom(z, k, i) ==
    IF i > Len(z.entries) THEN <<>>
    ELSE (IF i \in FileEntries(z) /\ EntryKey(z, i) = k THEN z.entries[i].data ELSE <<>>)
         \o BytesFrom(z, k, i + 1)

RECURSIVE ConcatArchives(_, _)
ConcatArchives(zs, k) ==
    IF zs = <<>> THEN <<>> ELSE BytesFrom(Head(zs), k, 1) \o ConcatArchives(Tail(zs), k)

\* The entry bytes of key k over all archives in ascending sequence order
ExpectedBytes(k) == ConcatArchives(AscendingOrder(ArchiveSet), k)

\* Each archive holds exactly one entry per LogicalFile
OneEntryPerFile ==
    \A z \in ArchiveSet :
       /\ KeysIn(z) = AllKeys
       /\ \A i, j \in FileEntries(z) : EntryKey(z, i) = EntryKey(z, j) => i = j

\* The destination of key k: the name of its entry in the first archive
\* that has one, under the destination root
DestFor(k) ==
    LET zs == AscendingOrder({z \in ArchiveSet : k \in KeysIn(z)})
        i  == CHOOSE i \in FileEntries(zs[1]) : EntryKey(zs[1], i) = k
        rel == RelOf(zs[1].entries[i], user_encoding)
    IN  [root |-> "dest", dir |-> rel.dir, base |-> rel.base, ext |-> "", idx |-> 0]

NoStepFailed == faults = 0 /\ trunc = {} /\ log.errors = <<>>

\* C1: when every archive holds one entry per LogicalFile and no step
\* fails, after stage_extract and merge_parts the destination of each
\* LogicalFile holds exactly the concatenation of its entry bytes in
\* ascending archive-sequence order, whatever the listing order inside
\* the archives.
C1_Reconstruction ==
    (AfterMerge /\ NoStepFailed /\ OneEntryPerFile) =>
        \A k \in AllKeys :
           /\ Exists(fs, DestFor(k))
           /\ fs[DestFor(k)] = ExpectedBytes(k)

\* Two archives that list the same two files in opposite orders, "10"
\* and "2", are merged without any failure
C1_Witness ==
    /\ pc = "done" /\ NoStepFailed /\ OneEntryPerFile
    /\ Len(zips) = 2 /\ Cardinality(AllKeys) = 2
    /\ zips[1].name = <<50>> \o DotZip /\ zips[2].name = <<49, 48>> \o DotZip
    /\ zips[1].entries[1].base # zips[2].entries[1].base
    /\ \A k \in AllKeys : Exists(fs, DestFor(k)) /\ Len(fs[DestFor(k)]) = 4

\* The items of parts_map that merge_parts has finished with
Reached(i) ==
    \/ pc \in {"copy", "verify", "move", "clean"} /\ ki > i
    \/ pc = "merge" /\ ki > i
    \/ AfterMerge /\ ki > i

Count(seq, x) == Cardinality({n \in 1..Len(seq) : seq[n] = x})

\* C2: a LogicalFile whose destination already exists keeps that
\* destination's content for the rest of the run, is listed once under
\* skipped_existing and once under errors when merge_parts has passed it,
\* gets no merged entry, and keeps every staged fragment on disk.
C2_OverwriteGuard ==
    (Merging \/ AfterMerge) =>
        \A i \in 1..Len(parts_map) :
           LET parts == parts_map[i].parts IN
           (parts # <<>> /\ FinalPath(parts[1]) \in DOMAIN pre) =>
              LET final_path == FinalPath(parts[1]) IN
              /\ Exists(fs, final_path) /\ fs[final_path] = pre[final_path]
              /\ \A n \in 1..Len(log.merged) : log.merged[n][1] # final_path
              /\ \A j \in 1..Len(parts) : Exists(fs, parts[j])
              /\ Reached(i) =>
                    /\ Count(log.skipped_existing, final_path) = 1
                    /\ Count(log.errors, [kind |-> "exists", about |-> final_path]) = 1

\* A first run ends having skipped an existing destination whose key has
\* two staged fragments, and having merged another file
C2_Witness ==
    /\ pc = "done" /\ run = 1
    /\ \E i \in 1..Len(parts_map) :
          /\ Len(parts_map[i].parts) = 2
          /\ FinalPath(parts_map[i].parts[1]) \in DOMAIN pre
          /\ FinalPath(parts_map[i].parts[1]) \in guarded
    /\ log.merged # <<>>

\* The items of parts_map that hold fragment p
OwnerOf(p) ==
    {i \in 1..Len(parts_map) : \E j \in 1..Len(parts_map[i].parts) : parts_map[i].parts[j] = p}

HasMerged(final_path) == \E n \in 1..Len(log.merged) : log.merged[n][1] = final_path
HasError(kind, about) == \E n \in 1..Len(log.errors) : log.errors[n] = [kind |-> kind, about |-> about]

\* C3: when one staged fragment is truncated between extraction and
\* merge (the only injected failure), the merge of its LogicalFile
\* fails: a merge error is recorded, no destination is published, its
\* fragments stay on disk, the run returns non-zero, and every other
\* LogicalFile whose destination was free is merged.
C3_TruncationDetected ==
    (pc = "done" /\ faults = 1 /\ trunc # {}) =>
        \A t \in trunc : \A i \in OwnerOf(t.path) :
           LET parts == parts_map[i].parts
               final_path == FinalPath(parts[1])
           IN
           (t.run = run /\ final_path \notin DOMAIN pre) =>
              /\ HasError("merge", final_path)
              /\ ~Exists(fs, final_path)
              /\ \A j \in 1..Len(parts) : Exists(fs, parts[j])
              /\ ret # 0
              /\ \A i2 \in 1..Len(parts_map) :
                    (i2 # i /\ FinalPath(parts_map[i2].parts[1]) \notin DOMAIN pre) =>
                       /\ Exists(fs, FinalPath(parts_map[i2].parts[1]))
                       /\ HasMerged(FinalPath(parts_map[i2].parts[1]))

\* One step of the program as C4 allows it
C4_Step ==
    /\ \A f \in DOMAIN fs : f.root = "dest" => f \in DOMAIN fs' /\ fs'[f] = fs[f]
    /\ \A f \in DOMAIN fs' :
          (f.root = "dest" /\ f \notin DOMAIN fs) =>
             \E i \in 1..Len(parts_map) :
                LET parts == parts_map[i].parts IN
                /\ parts # <<>> /\ FinalPath(parts[1]) = f
                /\ AllExist(fs, parts)
                /\ fs'[f] = ConcatFiles(fs, parts)
    /\ \A q \in DOMAIN fs :
          (q.ext = "part" /\ q \notin DOMAIN fs') =>
             \E i \in OwnerOf(q) :
                LET parts == parts_map[i].parts
                    final_path == FinalPath(parts[1])
                IN
                /\ AllExist(fs, parts)
                /\ Exists(fs', final_path)
                /\ fs'[final_path] = ConcatFiles(fs, parts)
                /\ Exists(fs, final_path) \/ Len(parts) = 1

\* C4: a destination appears in one step, holding the complete
\* concatenation of the recorded fragments of its LogicalFile, and is
\* never changed afterwards; a staged fragment leaves the staging area
\* only when the destination already holds that content (or, in the
\* fast path, by being renamed onto the destination).
C4_AtomicPublish == [][C4_Step]_vars

\* The destination of a two-fragment file is in place, complete, and its
\* fragments are not yet deleted
C4_Witness ==
    /\ pc = "clean"
    /\ LET parts == parts_map[ki].parts IN
       /\ Len(parts) = 2 /\ AllExist(fs, parts)
       /\ Exists(fs, FinalPath(parts[1]))
       /\ FinalPath(parts[1]) \notin DOMAIN pre
       /\ fs[FinalPath(parts[1])] = ConcatFiles(fs, parts)

\* A step in which the general path of merge_parts gives up on a key
GeneralPathFails == pc \in {"verify", "move"} /\ pc' = "merge"

\* What every such step does, the temporary file left aside
C5_Common ==
    LET parts == parts_map[ki].parts
        final_path == FinalPath(parts[1])
    IN
    /\ log'.errors = Append(log.errors, [kind |-> "merge", about |-> final_path])
    /\ \A j \in 1..Len(parts) : Exists(fs, parts[j]) => Exists(fs', parts[j])
    /\ ~Exists(fs', final_path)
    /\ log'.merged = log.merged

\* C5 as stated: after a failed merge in the general path the error is
\* recorded, the temporary merge file no longer exists, the fragments
\* are still on disk and no destination or merged record is created.
C5_Original ==
    [][GeneralPathFails =>
          C5_Common /\ ~Exists(fs', TmpMerge(parts_map[ki].parts[1]))]_vars

\* C5, amended: the same, except that the temporary merge file may
\* remain when its own deletion raises (the handler swallows that).
C5_FailedMerge ==
    [][GeneralPathFails =>
          /\ C5_Common
          /\ \/ ~Exists(fs', TmpMerge(parts_map[ki].parts[1]))
             \/ TmpMerge(parts_map[ki].parts[1]) \in stuck']_vars

\* A two-fragment merge has failed: its error is recorded, its temporary
\* file is gone and both fragments are still staged
C5_Witness ==
    /\ pc = "merge" /\ ki > 1
    /\ LET parts == parts_map[ki - 1].parts IN
       /\ Len(parts) = 2 /\ AllExist(fs, parts)
       /\ HasError("merge", FinalPath(parts[1]))
       /\ ~Exists(fs, TmpMerge(parts[1]))
       /\ ~Exists(fs, FinalPath(parts[1]))

\* The destinations the archives of the folder reconstruct
Outputs == {DestFor(k) : k \in AllKeys}

\* C6: a run that reads every archive, on a folder where every output
\* already exists, ends with no merged entry, exactly one skipped_existing
\* entry and one error for each output and nothing else in either list,
\* every output byte-identical, and a non-zero result.
C6_Idempotent ==
    (pc = "done" /\ xfail = {} /\ ~Aborted /\ \A o \in Outputs : o \in DOMAIN pre) =>
        /\ log.merged = <<>>
        /\ \A o \in Outputs :
              /\ Count(log.skipped_existing, o) = 1
              /\ Count(log.errors, [kind |-> "exists", about |-> o]) = 1
              /\ Exists(fs, o) /\ fs[o] = pre[o]
        /\ Len(log.skipped_existing) = Cardinality(Outputs)
        /\ Len(log.errors) = Cardinality(Outputs)
        /\ ret # 0

\* The second run over two archives ends: both outputs of the first run
\* were skipped, nothing was merged
C6_Witness ==
    /\ pc = "done" /\ run = 2 /\ faults = 0
    /\ Len(zips) = 2 /\ Cardinality(Outputs) = 2
    /\ \A o \in Outputs : o \in DOMAIN pre /\ fs[o] = ExpectedBytes(KeyOf(o))
    /\ Len(log.skipped_existing) = 2 /\ log.merged = <<>>
    /\ Len(reports) = 2

\* What stage_extract itself does about a failing archive: one error
\* tagged with its path, no entry after the failing one is touched, and
\* every later archive is opened and read to its end or to its own failure
C7_Extraction ==
    \A x \in xfail :
       /\ Count(log.errors, [kind |-> "extract", about |-> [zp |-> zips[x.z].name]]) = 1
       /\ \A e \in 1..Len(zips[x.z].entries) : e > x.e => <<x.z, e>> \notin xseen
       /\ (Merging \/ AfterMerge) =>
             \A z2 \in 1..Len(zips) :
                z2 > x.z =>
                   \/ \E y \in xfail : y.z = z2
                   \/ \A e \in 1..Len(zips[z2].entries) : <<z2, e>> \in xseen

\* The run goes on after archive failures: no fatal error, and
\* merge_parts deals with every LogicalFile that has staged fragments
C7_RunGoesOn ==
    (pc = "done" /\ xfail # {} /\ faults = Cardinality(xfail)) =>
        /\ ~\E n \in 1..Len(log.errors) : log.errors[n].kind = "fatal"
        /\ \A i \in 1..Len(parts_map) : parts_map[i].parts # <<>> => Reached(i)

\* C7: when opening or reading one archive fails, exactly one error
\* tagged with its path is recorded, no further entry of it is
\* processed, every later archive is still extracted, and the failure
\* does not abort the run.
C7_ArchiveIsolation == C7_Extraction /\ C7_RunGoesOn

\* Entry e of archive z was staged and recorded by this run
WasStaged(z, e) ==
    /\ <<z, e>> \in xseen
    /\ [z |-> z, e |-> e] \notin xfail
    /\ ~zips[z].entries[e].is_dir

RECURSIVE StagedFrom(_, _, _)
\* The staged entries that decode to key k, in archive-processing order
\* (archive by archive, each in listing order), from entry e of archive z
StagedFrom(k, z, e) ==
    IF z > Len(zips) THEN <<>>
    ELSE IF e > Len(zips[z].entries) THEN StagedFrom(k, z + 1, 1)
    ELSE (IF WasStaged(z, e) /\ Lower(RelOf(zips[z].entries[e], user_encoding).dir) = k.dir
                             /\ Lower(RelOf(zips[z].entries[e], user_encoding).base) = k.base
          THEN <<[rel |-> RelOf(zips[z].entries[e], user_encoding),
                  data |-> zips[z].entries[e].data]>>
          ELSE <<>>)
         \o StagedFrom(k, z, e + 1)

\* C8: at every point of the extraction loop, parts_map has one item per
\* case-insensitive path; the list of each key has one element per entry
\* staged for it so far, in the order the entries were met, and element j
\* is the staging file of that entry, carrying index j and holding the
\* entry's bytes.
C8_SequenceIndex ==
    pc \in {"open", "entry"} =>
        /\ \A i, i2 \in 1..Len(parts_map) :
              (Lower(parts_map[i].key.dir) = Lower(parts_map[i2].key.dir)
               /\ Lower(parts_map[i].key.base) = Lower(parts_map[i2].key.base)) => i = i2
        /\ \A i \in 1..Len(parts_map) :
              LET parts == parts_map[i].parts
                  met == StagedFrom(parts_map[i].key, 1, 1)
              IN
              /\ Len(parts) = Len(met)
              /\ \A j \in 1..Len(parts) :
                    /\ parts[j] = [root |-> "tmp", dir |-> met[j].rel.dir,
                                   base |-> met[j].rel.base, ext |-> "part", idx |-> j]
                    /\ Exists(fs, parts[j]) /\ fs[parts[j]] = met[j].data
        /\ \A z \in 1..Len(zips) : \A e \in 1..Len(zips[z].entries) :
              WasStaged(z, e) =>
                 \E i \in 1..Len(parts_map) :
                    /\ parts_map[i].key.dir = Lower(RelOf(zips[z].entries[e], user_encoding).dir)
                    /\ parts_map[i].key.base = Lower(RelOf(zips[z].entries[e], user_encoding).base)

\* In the middle of the second archive a key has three fragments, the
\* first two from entries "a" and "A" of the first archive
C8_Witness ==
    /\ pc = "entry" /\ zi = 2
    /\ \E i \in 1..Len(parts_map) :
          /\ Len(parts_map[i].parts) = 3
          /\ parts_map[i].parts[1].base # parts_map[i].parts[2].base
          /\ parts_map[i].parts[3].idx = 3

\* Archive z has been processed to its end, or has failed
ArchiveOver(z) ==
    \/ \E x \in xfail : x.z = z
    \/ \A e \in 1..Len(zips[z].entries) : <<z, e>> \in xseen

MergeTmpFiles(f) == [q \in {x \in DOMAIN f : x.ext = "__merge_tmp"} |-> f[q]]

\* A step that does any of the work of merge_parts
MergeStep ==
    \/ pc \in {"merge", "copy", "verify", "move", "clean"} /\ (pc' # pc \/ ki' # ki)
    \/ DestFiles(fs') # DestFiles(fs)
    \/ MergeTmpFiles(fs') # MergeTmpFiles(fs)
    \/ Len(log'.merged) > Len(log.merged)
    \/ Len(log'.skipped_existing) > Len(log.skipped_existing)
    \/ \E q \in DOMAIN fs : q.ext = "part" /\ q \notin DOMAIN fs'

\* C9: no step of the merge (destination check, concatenation, move,
\* fragment deletion) is taken before every archive of the sequence has
\* been processed to its end or has failed.
C9_ExtractBeforeMerge ==
    [][MergeStep => \A z \in 1..Len(zips) : ArchiveOver(z)]_vars

\* A merge is under way over two archives, one of which failed
C9_Witness ==
    /\ pc = "clean" /\ Len(zips) = 2
    /\ xfail # {}
    /\ \A z \in 1..Len(zips) : ArchiveOver(z)
    /\ log.merged # <<>>

FatalCount == Cardinality({n \in 1..Len(log.errors) : log.errors[n].kind = "fatal"})

\* What C10 says about the order of the finally block, the report file
\* left aside
C10_Order ==
    /\ (Aborted => FatalCount = 1) /\ (~Aborted => FatalCount = 0)
    /\ pc \in {"start", "stage", "open", "entry", "merge", "copy", "verify",
               "move", "clean", "cleanup"} => fin.cleanup = 0 /\ fin.write = 0
    /\ pc = "report" => fin.cleanup = 1 /\ fin.write = 0
    /\ pc \in {"return", "done"} => fin.cleanup = 1 /\ fin.write = 1
    /\ (pc = "done" /\ Aborted) => ret # 0

\* C10 as stated: every run, also one that an unexpected exception cut
\* short, records that exception as a single fatal error, attempts the
\* staging cleanup, then writes the report exactly once, and only then
\* returns (non-zero after an exception).
C10_Original ==
    /\ C10_Order
    /\ pc \in {"return", "done"} => fin.written = 1

\* C10, amended: the same, with log.write called exactly once; the
\* report file is there unless that write itself raises (which
\* SummaryLog.write swallows), and never twice.
C10_Finalization ==
    /\ C10_Order
    /\ fin.written <= fin.write

\* A run whose merge was cut short after one merge has recorded the
\* fatal error, cleaned up, written its report and returned 1
C10_Witness ==
    /\ pc = "done" /\ Aborted
    /\ FatalCount = 1
    /\ log.merged # <<>>
    /\ fin = [cleanup |-> 1, write |-> 1, written |-> 1]
    /\ ret = 1

\* The result process_zips returns agrees with its error list
C11_Status == pc = "done" => (ret = 0 <=> log.errors = <<>>)

\* A best-effort step (deleting fragments after a merge, the staging
\* cleanup, writing the report) neither records an error nor touches ret,
\* whether it succeeds or fails
C11_BestEffort ==
    pc \in {"clean", "cleanup", "report"} => log'.errors = log.errors /\ ret' = ret

\* C11: process_zips returns 0 exactly when its error list is empty at
\* the return (every recorded error forces a non-zero result), and the
\* best-effort steps record no error and leave the status alone.
C11_ExitStatus == [](C11_Status) /\ [][C11_BestEffort]_vars

\* A run that merged a file returns 0 although writing its report failed
C11_Witness ==
    /\ pc = "done" /\ ret = 0 /\ log.errors = <<>>
    /\ fin.write = 1 /\ fin.written = 0
    /\ log.merged # <<>>

MainOver == mpc \in {"returned", "raised"}

\* What main does when it gets to its return: every entry of the set was
\* visited, and the result is non-zero exactly when a subfolder's
\* pipeline returned non-zero
C12_Aggregate ==
    mpc = "returned" =>
        /\ Len(outcomes) = children
        /\ main_ret # 0 <=> \E i \in 1..Len(outcomes) : outcomes[i] = "failed"

\* C12: in --set mode the pipeline of every subfolder is run whatever
\* became of the others, also of one that holds no qualifying archive:
\* main ends by returning, after visiting every entry, with a non-zero
\* result exactly when some subfolder failed.
C12_SetIndependence ==
    /\ C12_Aggregate
    /\ MainOver => mpc = "returned" /\ Len(outcomes) = children

\* The integer an archive name carries after the prefix, if it has one
HasIntSuffix(z) == IsInt(PathStem(z.name))
IntSuffix(z) == DigitsValue(PathStem(z.name), 0)

\* a stands where the claim puts it with respect to b, a later element
InClaimedOrder(a, b) ==
    /\ (HasIntSuffix(a) /\ HasIntSuffix(b)) =>
          \/ IntSuffix(a) < IntSuffix(b)
          \/ IntSuffix(a) = IntSuffix(b) /\ LexLess(a.name, b.name)
    /\ ~HasIntSuffix(a) => ~HasIntSuffix(b)
    /\ (~HasIntSuffix(a) /\ ~HasIntSuffix(b)) => LexLess(a.name, b.name)

\* The enumerator returns exactly the qualifying files of the folder
C13_SameFiles ==
    pc = "enumerated" =>
        /\ {zips[i].name : i \in 1..Len(zips)} =
              {listing[i] : i \in {j \in 1..Len(listing) : Qualifies(listing[j])}}
        /\ \A i, j \in 1..Len(zips) : zips[i].name = zips[j].name => i = j

\* The claimed order, for folders whose integer suffixes are all below
\* sys.maxsize
C13_BelowMaxSize ==
    (pc = "enumerated" /\ \A i \in 1..Len(zips) :
                            HasIntSuffix(zips[i]) => IntSuffix(zips[i]) < MaxSize) =>
        \A i, j \in 1..Len(zips) : i < j => InClaimedOrder(zips[i], zips[j])

\* C13: the enumerator returns the archives in ascending order of the
\* integer after the prefix ("2" before "10"); an archive whose suffix is
\* missing or not an integer comes after every archive with an integer
\* suffix; equal keys are ordered by file name.
C13_ArchiveOrdering ==
    /\ C13_SameFiles
    /\ pc = "enumerated" =>
          \A i, j \in 1..Len(zips) : i < j => InClaimedOrder(zips[i], zips[j])

\* The staging directories on the way from the staging root to file q
PathTo(q) == MkdirParents(DirOf(q))

\* What the cleanup block does whether or not a removal fails: it
\* deletes no file, touches nothing under the destination root, and
\* leaves the staging root and every directory on the way to a remaining
\* file in place
C14_Kept ==
    /\ fs' = fs
    /\ {d \in dirs' : d.root = "dest"} = {d \in dirs : d.root = "dest"}
    /\ dirs' \subseteq dirs
    /\ \A q \in StagingFiles(fs) : PathTo(q) \subseteq dirs'

\* What it removes: the staging root goes exactly when no file is left
\* under it, and no staging directory off the way to a remaining file stays
C14_Removed ==
    /\ TmpRoot \notin dirs' <=> StagingFiles(fs) = {}
    /\ \A d \in StagingSubdirs(dirs') : \E q \in StagingFiles(fs) : d \in PathTo(q)

\* Every LogicalFile of the fragment mapping has a merged record
AllMerged ==
    /\ parts_map # <<>>
    /\ \A i \in 1..Len(parts_map) :
          parts_map[i].parts # <<>> /\ HasMerged(FinalPath(parts_map[i].parts[1]))

AfterCleanup == pc \in {"report", "return", "done"}

\* C14 as stated: the cleanup removes the empty staging directories
\* bottom-up and the staging root exactly when no file remains under it;
\* a remaining fragment keeps the root and its directories; after a run
\* in which every LogicalFile merged the staging root is gone.
C14_Original ==
    /\ [][pc = "cleanup" => C14_Kept /\ C14_Removed]_vars
    /\ []((AfterCleanup /\ AllMerged) => TmpRoot \notin dirs)

\* C14, amended: the same, the removals being best-effort: a directory
\* whose removal raises stays, so the staging root is gone exactly when
\* no file remains provided no removal of the block failed, and after a
\* run in which every LogicalFile merged provided no operation failed.
C14_Cleanup ==
    /\ [][pc = "cleanup" => C14_Kept /\ (faults' = faults => C14_Removed)]_vars
    /\ []((AfterCleanup /\ AllMerged /\ faults = 0) => TmpRoot \notin dirs)

\* The file under d/e was merged and the fragments of "a" remain after
\* a skip: d/e and d are gone, the staging root is still there
C14_Witness ==
    /\ pc = "done" /\ run = 1 /\ faults = 0
    /\ HasMerged(FinalB) /\ FinalA \in guarded
    /\ StagingFiles(fs) # {}
    /\ TmpRoot \in dirs /\ StagingSubdirs(dirs) = {}

\* A step in which merge_parts handles a LogicalFile that has exactly
\* one fragment and a free destination
SingleFragmentTurn ==
    /\ pc = "merge" /\ ki <= Len(parts_map)
    /\ Len(parts_map[ki].parts) = 1
    /\ ~Exists(fs, FinalPath(parts_map[ki].parts[1]))
    /\ pc' # pc \/ ki' # ki

\* The fast path: the fragment is renamed onto the destination, which so
\* has the fragment's size, the merge is recorded with count 1, and no
\* temporary merge file comes into being
FastMerged ==
    LET first_part == parts_map[ki].parts[1]
        final_path == FinalPath(first_part)
    IN
    /\ Exists(fs, first_part) /\ ~Exists(fs', first_part)
    /\ Exists(fs', final_path) /\ fs'[final_path] = fs[first_part]
    /\ Size(fs', final_path) = Size(fs, first_part)
    /\ log'.merged = Append(log.merged, <<final_path, 1>>)
    /\ MergeTmpFiles(fs') = MergeTmpFiles(fs)
    /\ pc' = "merge" /\ ki' = ki + 1

\* No temporary merge file of a single-fragment LogicalFile exists
NoSingleTmp ==
    \A i \in 1..Len(parts_map) :
       Len(parts_map[i].parts) = 1 => ~Exists(fs, TmpMerge(parts_map[i].parts[1]))

\* C15 as stated: a LogicalFile with one fragment and a free destination
\* is always merged by moving the fragment itself onto the destination,
\* the output having the fragment's size, and no temporary merge file of
\* it exists in any state of the run.
C15_Original ==
    /\ [][SingleFragmentTurn => FastMerged]_vars
    /\ [](NoSingleTmp)

\* C15, amended: the same as long as the fast path does not raise; when
\* an operation of it raises (the stat or the rename, or the creation of
\* the destination directory before it) nothing is published in that
\* step, and only then can the general path create a temporary merge
\* file for that LogicalFile.
C15_FastPath ==
    /\ [][SingleFragmentTurn =>
             \/ FastMerged
             \/ /\ faults' > faults \/ ~Exists(fs, parts_map[ki].parts[1])
                /\ fs' = fs /\ log'.merged = log.merged
                /\ pc' \in {"copy", "cleanup"}]_vars
    /\ [](faults = 0 => NoSingleTmp)

\* A single-fragment file has just been merged by the fast path in a run
\* without failures: the fragment is gone, the destination holds its two
\* bytes, and the staging area holds no temporary merge file
C15_Witness ==
    /\ pc = "merge" /\ ki > 1 /\ faults = 0
    /\ LET first_part == parts_map[ki - 1].parts[1] IN
       /\ Len(parts_map[ki - 1].parts) = 1
       /\ FinalPath(first_part) \notin DOMAIN pre
       /\ ~Exists(fs, first_part)
       /\ Exists(fs, FinalPath(first_part)) /\ Size(fs, FinalPath(first_part)) = 2
       /\ log.merged[Len(log.merged)] = <<FinalPath(first_part), 1>>
    /\ DOMAIN MergeTmpFiles(fs) = {}

\* The name under which entry e of archive z was staged
StagedName(z, e) ==
    LET i == CHOOSE i \in 1..Len(parts_map) :
                \E j \in 1..Len(parts_map[i].parts) :
                   fs[parts_map[i].parts[j]] = zips[z].entries[e].data
    IN  parts_map[i].parts[1].base

Flagged(info) == (info.flag_bits \div FLAG_UTF8) % 2 = 1

\* The raw legacy bytes of a stored name, when it has any
LegacyBytes(info) == Cp437Encode(info.base)

\* C16: the name an entry is staged under is the stored name itself when
\* the UTF-8 flag is set; for an unflagged entry it is the decoding of
\* the raw legacy bytes in the caller's encoding when one is given and
\* that decoding succeeds, the legacy decoding when it fails or none is
\* given, and the stored name when no redecoding can be made.
C16_DecodingPrecedence ==
    \A z \in 1..Len(zips) : \A e \in 1..Len(zips[z].entries) :
       WasStaged(z, e) =>
          LET info == zips[z].entries[e]
              raw == LegacyBytes(info)
              name == StagedName(z, e)
          IN
          /\ Flagged(info) => name = info.base
          /\ (~Flagged(info) /\ raw = DecodeFail) => name = info.base
          /\ (~Flagged(info) /\ raw # DecodeFail) =>
                IF user_encoding # "" /\ UserDecode(raw, user_encoding) # DecodeFail
                THEN name = UserDecode(raw, user_encoding)
                ELSE name = Cp437Decode(raw)

\* An unflagged entry stored as the CP437 reading of 147 250 after "a"
\* was staged, with --encoding cp932, under "a" and the kanji
C16_Witness ==
    /\ pc = "merge" /\ user_encoding = "cp932"
    /\ WasStaged(1, 1) /\ ~Flagged(zips[1].entries[1])
    /\ zips[1].entries[1].base = <<97, 244, 183>>
    /\ StagedName(1, 1) = <<97, 26085>>

\* The destinations this run has published so far
Published == {f \in DOMAIN fs : f.root = "dest" /\ f \notin DOMAIN pre}

\* The items of parts_map whose destination is f
KeysOf(f) ==
    {i \in 1..Len(parts_map) :
        parts_map[i].parts # <<>> /\ FinalPath(parts_map[i].parts[1]) = f}

\* C17: during and after merge_parts, log.merged holds one entry for
\* each destination this run has published and no other entry; the count
\* of an entry is the number of fragments recorded for its LogicalFile
\* (1 for the fast path); a skipped or failed LogicalFile has no entry.
C17_MergeRecords ==
    (Merging \/ AfterMerge) =>
        /\ \A f \in Published :
              /\ Cardinality({n \in 1..Len(log.merged) : log.merged[n][1] = f}) = 1
              /\ Cardinality(KeysOf(f)) = 1
              /\ \A n \in 1..Len(log.merged) : \A i \in KeysOf(f) :
                    log.merged[n][1] = f => log.merged[n][2] = Len(parts_map[i].parts)
        /\ \A n \in 1..Len(log.merged) : log.merged[n][1] \in Published
        /\ \A f \in guarded : ~HasMerged(f)
        /\ \A n \in 1..Len(log.errors) :
              log.errors[n].kind = "merge" => ~HasMerged(log.errors[n].about)

\* A run has published two files, one from three fragments and one by
\* the fast path, and has recorded both
C17_Witness ==
    /\ pc = "done" /\ Cardinality(Published) = 2 /\ Len(log.merged) = 2
    /\ \E n, m \in 1..Len(log.merged) : log.merged[n][2] = 1 /\ log.merged[m][2] = 3

\* merge_parts was called and control has left it
MergeOver == AfterMerge /\ zi > Len(zips)

\* The terminal states item i of parts_map has reached: a skip, a merged
\* record (fast path or general path), a merge error of its own
TerminalStates(i) ==
    LET final_path == FinalPath(parts_map[i].parts[1]) IN
    Count(log.skipped_existing, final_path)
    + Cardinality({n \in 1..Len(log.merged) : log.merged[n][1] = final_path})
    + Count(log.errors, [kind |-> "merge", about |-> final_path])

\* What holds of the LogicalFiles merge_parts got to
C18_Handled ==
    (Merging \/ AfterMerge) =>
        \A i \in 1..Len(parts_map) :
           (Reached(i) /\ parts_map[i].parts # <<>>) => TerminalStates(i) = 1

\* C18: when merge_parts ends, every LogicalFile of the fragment mapping
\* has reached exactly one of skipped, fast_merged, merged, merge_failed;
\* a failure while handling one of them, the derivation or creation of
\* its destination directory included, is an error of that file only and
\* the remaining LogicalFiles are still merged.
C18_EveryFileTerminal ==
    /\ C18_Handled
    /\ MergeOver =>
          /\ FatalCount = 0
          /\ \A i \in 1..Len(parts_map) :
                parts_map[i].parts # <<>> /\ TerminalStates(i) = 1

\* The byte sequence `data` occurs in `bytes`
Contains(bytes, data) ==
    \E o \in 0..(Len(bytes) - Len(data)) : SubSeq(bytes, o + 1, o + Len(data)) = data

\* C19: a destination recorded as merged holds the bytes of every
\* archive entry that decodes to its LogicalFile, also of the entries of
\* an archive that failed part-way (no fragment being tampered with
\* between extraction and merge).
C19_Completeness ==
    ((Merging \/ AfterMerge) /\ trunc = {}) =>
        \A n \in 1..Len(log.merged) :
           LET final_path == log.merged[n][1] IN
           \A z \in 1..Len(zips) : \A e \in FileEntries(zips[z]) :
              EntryKey(zips[z], e) = KeyOf(final_path) =>
                 /\ Exists(fs, final_path)
                 /\ Contains(fs[final_path], zips[z].entries[e].data)

\* The files a step creates, replaces or deletes
Touched ==
    {q \in DOMAIN fs \cup DOMAIN fs' :
        q \notin DOMAIN fs \/ q \notin DOMAIN fs' \/ fs[q] # fs'[q]}

\* Plain entry names stay in the tree: a file named without ".." and
\* not absolutely is staged under the staging root and published under
\* the destination root
C20_PlainNames ==
    [][\A q \in Touched :
          (~IsAbsolute(q.dir) /\ \A i \in 1..Len(Split(q.dir)) : Split(q.dir)[i] # <<46, 46>>)
             => /\ UnderDest(q)
                /\ q.ext = "part" => UnderStaging(q)]_vars

\* C20: whatever names the archives hold, names with ".." components
\* and absolute names included, every fragment stage_extract writes lies
\* under the staging root, and every file or directory the run creates,
\* replaces or deletes lies under the destination root.
C20_PathConfinement ==
    [][/\ \A q \in Touched :
             /\ UnderDest(q)
             /\ (pc = "entry" /\ q.ext = "part") => UnderStaging(q)
       /\ \A d \in dirs' \ dirs : UnderDest(d)]_vars

====
